---------------------------- MODULE Spec2Model ----------------------------
(***************************************************************************)
(* Model of the paynow-go request/response signing protocol                *)
(* (internal/hash: GenerateHash, ValidateHash) and of the client that      *)
(* uses it (SendMobile, PollTransaction).                                  *)
(*                                                                         *)
(* A Go string is a finite sequence of bytes: here a sequence of naturals  *)
(* in 0..255.  SHA-512 is treated as collision free: the digest of a       *)
(* message is modelled by an injective map (the message followed by the    *)
(* padding byte 16^^80), so two digests are equal exactly when the hashed  *)
(* messages are equal.                                                     *)
(***************************************************************************)
EXTENDS Integers, Sequences, FiniteSets, TLC

----------------------------------------------------------------------------
(* Bytes and strings *)

\* ASCII codes of the characters the inputs are written with.
Ord ==
  (" " :> 32) @@ ("%" :> 37) @@ ("&" :> 38) @@ ("+" :> 43) @@ ("-" :> 45) @@
  ("." :> 46) @@ ("0" :> 48) @@ ("1" :> 49) @@ ("2" :> 50) @@ ("3" :> 51) @@
  ("4" :> 52) @@ ("5" :> 53) @@ ("6" :> 54) @@ ("7" :> 55) @@ ("8" :> 56) @@
  ("9" :> 57) @@ (";" :> 59) @@ ("=" :> 61) @@
  ("A" :> 65) @@ ("B" :> 66) @@ ("C" :> 67) @@ ("D" :> 68) @@ ("E" :> 69) @@
  ("F" :> 70) @@ ("H" :> 72) @@ ("J" :> 74) @@ ("M" :> 77) @@ ("O" :> 79) @@
  ("P" :> 80) @@ ("R" :> 82) @@ ("S" :> 83) @@ ("U" :> 85) @@ ("Z" :> 90) @@
  ("_" :> 95) @@
  ("a" :> 97) @@ ("b" :> 98) @@ ("c" :> 99) @@ ("d" :> 100) @@ ("e" :> 101) @@
  ("f" :> 102) @@ ("g" :> 103) @@ ("h" :> 104) @@ ("i" :> 105) @@
  ("j" :> 106) @@ ("k" :> 107) @@ ("l" :> 108) @@ ("m" :> 109) @@
  ("n" :> 110) @@ ("o" :> 111) @@ ("p" :> 112) @@ ("q" :> 113) @@
  ("r" :> 114) @@ ("s" :> 115) @@ ("t" :> 116) @@ ("u" :> 117) @@
  ("v" :> 118) @@ ("w" :> 119) @@ ("x" :> 120) @@ ("y" :> 121) @@
  ("z" :> 122) @@ ("~" :> 126)

\* The Go string written with the characters cs.
B(cs) == [i \in 1..Len(cs) |-> Ord[cs[i]]]

Ch(c) == Ord[c]

EmptyString == << >>

\* a < b in Go's string order (byte-wise lexicographic).
StringLess(a, b) ==
  \E i \in 1..(Len(a) + 1) :
    /\ i <= Len(b)
    /\ \A j \in 1..(i - 1) : a[j] = b[j]
    /\ (i = Len(a) + 1 \/ a[i] < b[i])

\* strings.ToLower on one byte / on a string (ASCII letters only change).
LowerByte(c) == IF c >= Ch("A") /\ c <= Ch("Z") THEN c + 32 ELSE c

UpperByte(c) == IF c >= Ch("a") /\ c <= Ch("z") THEN c - 32 ELSE c

ToLower(s) == [i \in 1..Len(s) |-> LowerByte(s[i])]

ToUpper(s) == [i \in 1..Len(s) |-> UpperByte(s[i])]

RECURSIVE Concat(_)
\* The strings of the sequence ss written one after the other.
Concat(ss) == IF ss = << >> THEN << >> ELSE Head(ss) \o Concat(Tail(ss))

RECURSIVE IndexFrom(_, _, _)
\* Position of the first byte c of s at or after position i, 0 when none.
IndexFrom(s, c, i) ==
  IF i > Len(s) THEN 0
  ELSE IF s[i] = c THEN i
  ELSE IndexFrom(s, c, i + 1)

RECURSIVE SplitFrom(_, _, _)
SplitFrom(s, c, i) ==
  LET j == IndexFrom(s, c, i)
  IN  IF j = 0 THEN << SubSeq(s, i, Len(s)) >>
      ELSE << SubSeq(s, i, j - 1) >> \o SplitFrom(s, c, j + 1)

\* strings.Split(s, sep) for a one-byte separator: always at least one piece.
Split(s, c) == SplitFrom(s, c, 1)

\* strings.SplitN(s, sep, 2) for a one-byte separator: one or two pieces.
SplitN2(s, c) ==
  LET j == IndexFrom(s, c, 1)
  IN  IF j = 0 THEN << s >>
      ELSE << SubSeq(s, 1, j - 1), SubSeq(s, j + 1, Len(s)) >>

----------------------------------------------------------------------------
(* encoding/hex, crypto/sha512, net/url escaping *)

HexDigits == B(<< "0", "1", "2", "3", "4", "5", "6", "7", "8", "9",
                  "a", "b", "c", "d", "e", "f" >>)

\* hex.EncodeToString: two lower-case hex digits per byte.
HexEncode(bs) ==
  [i \in 1..(2 * Len(bs)) |->
     IF i % 2 = 1 THEN HexDigits[(bs[(i + 1) \div 2] \div 16) + 1]
     ELSE HexDigits[(bs[i \div 2] % 16) + 1]]

\* sha512.Sum512 as a collision-free digest: injective, never empty.
Sum512(msg) == msg \o << 128 >>

IsHex(c) ==
  \/ c >= Ch("0") /\ c <= Ch("9")
  \/ c >= Ch("a") /\ c <= Ch("f")
  \/ c >= Ch("A") /\ c <= Ch("F")

UnHex(c) ==
  IF c >= Ch("0") /\ c <= Ch("9") THEN c - Ch("0")
  ELSE IF c >= Ch("a") /\ c <= Ch("f") THEN c - Ch("a") + 10
  ELSE c - Ch("A") + 10

\* url.QueryUnescape fails when a '%' is not followed by two hex digits.
EscapeOK(s) ==
  \A i \in 1..Len(s) :
    s[i] = Ch("%") => (i + 2 <= Len(s) /\ IsHex(s[i + 1]) /\ IsHex(s[i + 2]))

RECURSIVE UnescapeFrom(_, _)
UnescapeFrom(s, i) ==
  IF i > Len(s) THEN << >>
  ELSE IF s[i] = Ch("%")
       THEN << 16 * UnHex(s[i + 1]) + UnHex(s[i + 2]) >> \o UnescapeFrom(s, i + 3)
  ELSE IF s[i] = Ch("+") THEN << Ch(" ") >> \o UnescapeFrom(s, i + 1)
  ELSE << s[i] >> \o UnescapeFrom(s, i + 1)

\* Faulty variant: the value is used as received, never percent-decoded.
QueryUnescapeIdentity(s) == [ok |-> TRUE, val |-> s]

\* url.QueryUnescape: [ok, val]; val is meaningful only when ok.
QueryUnescape(s) ==
  IF EscapeOK(s) THEN [ok |-> TRUE, val |-> UnescapeFrom(s, 1)]
  ELSE [ok |-> FALSE, val |-> << >>]

\* url.QueryEscape leaves letters, digits, '-', '_', '.', '~' alone.
Unreserved(c) ==
  \/ c >= Ch("a") /\ c <= Ch("z")
  \/ c >= Ch("A") /\ c <= Ch("Z")
  \/ c >= Ch("0") /\ c <= Ch("9")
  \/ c \in { Ch("-"), Ch("_"), Ch("."), Ch("~") }

\* url.QueryEscape: ' ' becomes '+', other reserved bytes become %XX.
QueryEscape(s) ==
  Concat([i \in 1..Len(s) |->
            IF Unreserved(s[i]) THEN << s[i] >>
            ELSE IF s[i] = Ch(" ") THEN << Ch("+") >>
            ELSE << Ch("%") >> \o ToUpper(HexEncode(<< s[i] >>))])

----------------------------------------------------------------------------
(* internal/hash *)

HashName == B(<< "h", "a", "s", "h" >>)

\* url.Values.Get: the first value stored under k, "" when there is none.
Get(values, k) ==
  IF k \in DOMAIN values /\ Len(values[k]) > 0 THEN values[k][1] ELSE EmptyString

\* Faulty variant: the reserved name is compared without strings.ToLower.
SignedKeysCaseSensitive(values) == { k \in DOMAIN values : k # HashName }

\* The keys GenerateHash keeps (hash.go:17-21).
SignedKeys(values) == { k \in DOMAIN values : ToLower(k) # HashName }

RECURSIVE SortStrings(_)
\* sort.Strings over the collected keys: ascending byte-wise order.
SortStrings(keys) ==
  IF keys = {} THEN << >>
  ELSE LET m == CHOOSE k \in keys : \A o \in keys \ {k} : StringLess(k, o)
       IN  << m >> \o SortStrings(keys \ {m})

\* The digest both functions end with: upper-case hex of SHA-512.
HexDigest(msg) == ToUpper(HexEncode(Sum512(msg)))

\* Faulty variant: the keys are taken in descending order.
GenerateHashDescending(values, integrationKey) ==
  LET asc == SortStrings(SignedKeys(values))
      keys == [i \in 1..Len(asc) |-> asc[Len(asc) + 1 - i]]
      hashString == Concat([i \in 1..Len(keys) |-> Get(values, keys[i])])
  IN  HexDigest(hashString \o integrationKey)

\* Faulty variant: every name is hashed together with its value.
GenerateHashNamed(values, integrationKey) ==
  LET keys == SortStrings(SignedKeys(values))
      hashString == Concat([i \in 1..Len(keys) |->
                              keys[i] \o << Ch("=") >> \o Get(values, keys[i]) \o << Ch("&") >>])
  IN  HexDigest(hashString \o integrationKey)

\* Faulty variant: the names of the sorted keys are hashed, not their values.
GenerateHashOverNames(values, integrationKey) ==
  LET keys == SortStrings(SignedKeys(values))
  IN  HexDigest(Concat(keys) \o integrationKey)

GenerateHash(values, integrationKey) ==
  LET keys == SortStrings(SignedKeys(values))
      hashString == Concat([i \in 1..Len(keys) |-> Get(values, keys[i])])
  IN  HexDigest(hashString \o integrationKey)

\* The orders in which `for k := range values` may meet the keys of the map:
\* Go leaves the order unspecified, so every arrangement of the keys.
RangeOrders(values) ==
  LET n == Cardinality(DOMAIN values)
  IN  { o \in [1..n -> DOMAIN values] : \A i, j \in 1..n : o[i] = o[j] => i = j }

\* Faulty variant: the collected keys are used as the range met them, without
\* sort.Strings.
GenerateHashRangeUnsorted(values, integrationKey, order) ==
  LET keys == SelectSeq(order, LAMBDA k : ToLower(k) # HashName)
      hashString == Concat([i \in 1..Len(keys) |-> Get(values, keys[i])])
  IN  HexDigest(hashString \o integrationKey)

\* GenerateHash with the order of its range over the map made explicit: the
\* keys are appended in that order, then sorted.
GenerateHashRange(values, integrationKey, order) ==
  LET collected == SelectSeq(order, LAMBDA k : ToLower(k) # HashName)
      keys == SortStrings({ collected[i] : i \in 1..Len(collected) })
      hashString == Concat([i \in 1..Len(keys) |-> Get(values, keys[i])])
  IN  HexDigest(hashString \o integrationKey)

NoError == [kind |-> "nil"]

DecodeError(key) == [kind |-> "failed to decode value", key |-> key]

MismatchError(received, expected) ==
  [kind |-> "invalid hash", received |-> received, expected |-> expected]

RECURSIVE ValidateLoop(_, _, _, _, _)
\* The loop of ValidateHash from pair i on, with the builder and the received
\* hash so far; then the comparison.
ValidateLoop(pairs, i, hashString, receivedHash, integrationKey) ==
  IF i > Len(pairs)
  THEN LET expectedHash == HexDigest(hashString \o integrationKey)
       IN  IF receivedHash # expectedHash
           THEN MismatchError(receivedHash, expectedHash)
           ELSE NoError
  ELSE LET kv == SplitN2(pairs[i], Ch("="))
       IN  IF Len(kv) # 2
           THEN ValidateLoop(pairs, i + 1, hashString, receivedHash, integrationKey)
           ELSE IF ToLower(kv[1]) = HashName
           THEN ValidateLoop(pairs, i + 1, hashString, kv[2], integrationKey)
           ELSE LET d == QueryUnescape(kv[2])
                IN  IF ~d.ok THEN DecodeError(kv[1])
                    ELSE ValidateLoop(pairs, i + 1, hashString \o d.val,
                                      receivedHash, integrationKey)

\* Faulty variant: the pairs are hashed in sorted order instead of wire order.
ValidateHashSortedOrder(rawBody, integrationKey) ==
  LET pairs == Split(rawBody, Ch("&"))
  IN  ValidateLoop(SortStrings({ pairs[i] : i \in 1..Len(pairs) }), 1,
                   EmptyString, EmptyString, integrationKey)

\* Faulty variant: the loop ends at the first hash pair (break instead of continue).
ValidateHashStopAtHash(rawBody, integrationKey) ==
  LET pairs == Split(rawBody, Ch("&"))
      isHash(i) == LET kv == SplitN2(pairs[i], Ch("="))
                   IN  Len(kv) = 2 /\ ToLower(kv[1]) = HashName
      stop == IF \E i \in 1..Len(pairs) : isHash(i)
              THEN CHOOSE i \in 1..Len(pairs) :
                     isHash(i) /\ \A j \in 1..(i - 1) : ~isHash(j)
              ELSE Len(pairs)
  IN  ValidateLoop(SubSeq(pairs, 1, stop), 1, EmptyString, EmptyString, integrationKey)

\* Faulty variant: a payload that carries no signature is let through.
ValidateHashMissingOK(rawBody, integrationKey) ==
  LET pairs == Split(rawBody, Ch("&"))
      r == ValidateLoop(pairs, 1, EmptyString, EmptyString, integrationKey)
  IN  IF r.kind = "invalid hash" /\ r.received = EmptyString THEN NoError ELSE r

\* Faulty variant: the value of the hash pair is percent-decoded as well.
ValidateHashDecodeHash(rawBody, integrationKey) ==
  LET pairs == Split(rawBody, Ch("&"))
      bad(i) == LET kv == SplitN2(pairs[i], Ch("="))
                IN  Len(kv) = 2 /\ ~QueryUnescape(kv[2]).ok
  IN  IF \E i \in 1..Len(pairs) : bad(i)
      THEN LET first == CHOOSE i \in 1..Len(pairs) : bad(i) /\ \A j \in 1..(i - 1) : ~bad(j)
           IN  DecodeError(SplitN2(pairs[first], Ch("="))[1])
      ELSE ValidateLoop(pairs, 1, EmptyString, EmptyString, integrationKey)

\* Faulty variant: a token without '=' is taken as a value without a name.
ValidateHashBareValue(rawBody, integrationKey) ==
  LET pairs == Split(rawBody, Ch("&"))
      named == [i \in 1..Len(pairs) |->
                  IF Len(SplitN2(pairs[i], Ch("="))) = 2 THEN pairs[i]
                  ELSE << Ch("=") >> \o pairs[i]]
  IN  ValidateLoop(named, 1, EmptyString, EmptyString, integrationKey)

\* Faulty variant: the first hash pair is the received signature; a later one
\* does not replace it.
ValidateHashFirstHash(rawBody, integrationKey) ==
  LET pairs == Split(rawBody, Ch("&"))
      isHash(i) == LET kv == SplitN2(pairs[i], Ch("="))
                   IN  Len(kv) = 2 /\ ToLower(kv[1]) = HashName
      kept == SelectSeq([i \in 1..Len(pairs) |-> i],
                        LAMBDA i : ~isHash(i) \/ \A j \in 1..(i - 1) : ~isHash(j))
  IN  ValidateLoop([k \in 1..Len(kept) |-> pairs[kept[k]]], 1,
                   EmptyString, EmptyString, integrationKey)

ValidateHash(rawBody, integrationKey) ==
  ValidateLoop(Split(rawBody, Ch("&")), 1, EmptyString, EmptyString, integrationKey)

----------------------------------------------------------------------------
(* State *)

VARIABLES
  values,          \* the url.Values handed to GenerateHash
  integrationKey,  \* the shared secret
  rawBody,         \* the raw payload handed to ValidateHash
  call,            \* the call that produced the results below
  signature,       \* what GenerateHash returned
  prevSignature,   \* what it returned before the last values.Set
  lastKey,         \* the name of the last values.Set
  verr,            \* the error ValidateHash returned
  origBody,        \* the accepted payload a tampered payload was made from
  config,          \* Client.config
  payment,         \* the Payment handed to SendMobile
  pc,              \* where the client call stands: idle, posting, polling, done
  posts,           \* how many times httpClient.PostForm was called
  resp,            \* the response the client call returned
  err,             \* the error the client call returned
  hashRun,         \* whether the client call ran ValidateHash on the body
  rangeOrder,      \* the order in which the last range over the map met the keys
  prevValues,      \* the url.Values before the last values.Set
  txStatus,        \* the TransactionStatus the helpers are asked about
  answers,         \* what IsPaid, IsPending and IsFailed returned so far
  inputs,          \* the arguments of each concurrent invocation
  locals,          \* where each concurrent invocation stands, and its locals
  builders         \* the contents of the strings.Builder values in memory

hashVars ==
  << values, integrationKey, rawBody, call, signature, prevSignature, lastKey,
     verr, origBody >>

clientVars == << config, payment, pc, posts, resp, err, hashRun >>

statusVars == << txStatus, answers >>

goVars == << inputs, locals, builders >>

moreHashVars == << rangeOrder, prevValues >>

otherVars == << moreHashVars, statusVars, goVars >>

vars == << hashVars, clientVars, otherVars >>

----------------------------------------------------------------------------
(* Inputs *)

MaxFields == 2

MaxPairs == 3

Keys == { B(<< "k", "e", "y" >>), B(<< "s" >>) }

FieldNames ==
  { B(<< "a" >>), B(<< "b" >>), B(<< "B" >>),
    B(<< "h", "a", "s", "h" >>), B(<< "H", "A", "S", "H" >>) }

FieldValues ==
  { B(<< "1" >>), B(<< "2" >>), EmptyString,
    B(<< "+", "%" >>), B(<< "&", "=", " " >>) }

\* url.Values built with Set: every name holds exactly one value.
FieldSets ==
  UNION { [S -> { << v >> : v \in FieldValues }] :
            S \in { T \in SUBSET FieldNames : Cardinality(T) <= MaxFields } }

\* Pair tokens of a payload that are not the signature.
PlainTokens ==
  { B(<< "x", "=", "5" >>), B(<< "y", "=", "6" >>), B(<< "m", "=", "+", "%", "4", "A" >>), B(<< "p", "=", "%" >>),
    B(<< "r", "=", "%", "Z" >>),
    B(<< "5" >>), B(<< "q", "=", "5", "=", "6" >>),
    B(<< "s", "t", "a", "t", "u", "s", "=", "E", "r", "r", "o", "r" >>) }

\* The messages whose digests a payload may carry.
Messages ==
  { B(<< "5", "6" >>), B(<< "6", "5" >>), B(<< " ", "J" >>) }

\* Signature pairs: hash=<digest of a message and the secret>, hash=, one in
\* another letter case and one whose value is not a valid escape.
HashTokens(K) ==
  { HashName \o << Ch("=") >> \o h :
      h \in { HexDigest(m \o K) : m \in Messages } \cup { EmptyString } }
  \cup { B(<< "H", "a", "s", "h", "=" >>) \o HexDigest(B(<< "5", "6" >>) \o K),
         B(<< "h", "a", "s", "h", "=", "%" >>) }

RECURSIVE Join(_, _)
\* strings.Join(ss, sep) for a one-byte separator.
Join(ss, c) ==
  IF ss = << >> THEN << >>
  ELSE IF Len(ss) = 1 THEN ss[1]
  ELSE ss[1] \o << c >> \o Join(Tail(ss), c)

Payloads(K) ==
  { Join(ts, Ch("&")) :
      ts \in UNION { [1..n -> PlainTokens \cup HashTokens(K)] : n \in 0..MaxPairs } }

TamperBytes == { Ch(" "), Ch("+"), Ch("a"), Ch("7"), Ch("&"), Ch("=") }

----------------------------------------------------------------------------
(* Helpers of the calls *)

\* url.Values.Set: the name holds exactly the one value afterwards.
Set(vals, k, v) == [n \in DOMAIN vals \cup {k} |-> IF n = k THEN << v >> ELSE vals[n]]

\* url.Values.Encode, the body PostForm sends: the names in sorted order,
\* every name and value query-escaped, pairs joined by '&'.
Encode(vals) ==
  LET keys == SortStrings(DOMAIN vals)
      pairsOf(k) ==
        [j \in 1..Len(vals[k]) |-> QueryEscape(k) \o << Ch("=") >> \o QueryEscape(vals[k][j])]
  IN  Join(Concat([i \in 1..Len(keys) |-> pairsOf(keys[i])]), Ch("&"))

\* The signed text: the encoded fields followed by hash=<signature>.
Serialize(vals, sig) ==
  LET fields == Encode(vals)
      hashPair == HashName \o << Ch("=") >> \o sig
  IN  IF fields = EmptyString THEN hashPair ELSE fields \o << Ch("&") >> \o hashPair

\* s with its byte at position i replaced by c.
ReplaceAt(s, i, c) == [j \in 1..Len(s) |-> IF j = i THEN c ELSE s[j]]

\* The positions of raw that lie inside the value of a pair that is not the
\* hash pair: after the first '=' of an '&'-separated token whose name is
\* not "hash".
ValuePositions(raw) ==
  { i \in 1..Len(raw) :
      /\ raw[i] # Ch("&")
      /\ \E e \in 1..(i - 1) :
           /\ raw[e] = Ch("=")
           /\ \A j \in e..i : raw[j] # Ch("&")
           /\ \E st \in 1..e :
                /\ (st = 1 \/ raw[st - 1] = Ch("&"))
                /\ \A j \in st..(e - 1) : raw[j] # Ch("&") /\ raw[j] # Ch("=")
                /\ ToLower(SubSeq(raw, st, e - 1)) # HashName }

----------------------------------------------------------------------------
(* Client types *)

NilResponse == [type |-> "nil"]

ZeroConfig ==
  [IntegrationID |-> EmptyString, IntegrationKey |-> EmptyString,
   ResultURL |-> EmptyString, ReturnURL |-> EmptyString]

ZeroPayment ==
  [Reference |-> EmptyString, Amount |-> 0, AuthEmail |-> EmptyString,
   Phone |-> EmptyString, Method |-> EmptyString]

\* No client call has been made.
ClientIdle ==
  /\ config = ZeroConfig
  /\ payment = ZeroPayment
  /\ pc = "idle"
  /\ posts = 0
  /\ resp = NilResponse
  /\ err = NoError
  /\ hashRun = FALSE

\* No status helper was asked and no concurrent invocation exists.
OthersIdle ==
  /\ rangeOrder = << >>
  /\ prevValues = << >>
  /\ txStatus = EmptyString
  /\ answers = << >>
  /\ inputs = << >>
  /\ locals = << >>
  /\ builders = << >>

----------------------------------------------------------------------------
(* The signer: GenerateHash over outbound field sets *)

InitSigner ==
  /\ values \in FieldSets
  /\ integrationKey \in Keys
  /\ rawBody = EmptyString
  /\ call = "none"
  /\ signature = EmptyString
  /\ prevSignature = EmptyString
  /\ lastKey = EmptyString
  /\ verr = NoError
  /\ origBody = EmptyString
  /\ ClientIdle
  /\ OthersIdle

\* requestHash := hash.GenerateHash(data, key)
Sign ==
  /\ call = "none"
  /\ signature' = GenerateHash(values, integrationKey)
  /\ call' = "GenerateHash"
  /\ UNCHANGED << values, integrationKey, rawBody, prevSignature, lastKey, verr, origBody, clientVars >>
  /\ UNCHANGED otherVars

\* values.Set(k, v) on a signed field set, then GenerateHash again.
SetAndSign(k, v) ==
  /\ call = "GenerateHash"
  /\ values' = Set(values, k, v)
  /\ lastKey' = k
  /\ prevSignature' = signature
  /\ signature' = GenerateHash(values', integrationKey)
  /\ call' = "SetAndSign"
  /\ prevValues' = values
  /\ UNCHANGED << integrationKey, rawBody, verr, origBody, clientVars >>
  /\ UNCHANGED << rangeOrder, statusVars, goVars >>

\* The signed field set goes on the wire and comes back to ValidateHash.
RoundTrip ==
  /\ call = "GenerateHash"
  /\ rawBody' = Serialize(values, signature)
  /\ verr' = ValidateHash(rawBody', integrationKey)
  /\ call' = "RoundTrip"
  /\ UNCHANGED << values, integrationKey, signature, prevSignature, lastKey, origBody, clientVars >>
  /\ UNCHANGED otherVars

\* A second GenerateHash on the same field set and secret, whose range over
\* the map meets the keys in some order of its own.
SignAgain ==
  /\ call = "GenerateHash"
  /\ \E order \in RangeOrders(values) :
       /\ rangeOrder' = order
       /\ signature' = GenerateHashRange(values, integrationKey, order)
  /\ prevSignature' = signature
  /\ call' = "SignAgain"
  /\ UNCHANGED << values, integrationKey, rawBody, lastKey, verr, origBody,
                  clientVars, prevValues, statusVars, goVars >>

NextSigner ==
  \/ Sign
  \/ \E k \in FieldNames, v \in FieldValues : SetAndSign(k, v)
  \/ RoundTrip
  \/ SignAgain

SpecSigner == InitSigner /\ [][NextSigner]_vars

----------------------------------------------------------------------------
(* The verifier: ValidateHash over raw payloads *)

InitVerifier ==
  /\ values = << >>
  /\ integrationKey \in Keys
  /\ rawBody \in Payloads(integrationKey)
  /\ call = "none"
  /\ signature = EmptyString
  /\ prevSignature = EmptyString
  /\ lastKey = EmptyString
  /\ verr = NoError
  /\ origBody = EmptyString
  /\ ClientIdle
  /\ OthersIdle

\* err := hash.ValidateHash(body, key)
Validate ==
  /\ call = "none"
  /\ verr' = ValidateHash(rawBody, integrationKey)
  /\ call' = "ValidateHash"
  /\ UNCHANGED << values, integrationKey, rawBody, signature, prevSignature, lastKey, origBody, clientVars >>
  /\ UNCHANGED otherVars

\* One byte inside a non-hash value of an accepted payload is replaced by
\* another byte, and the result is validated again.
Tamper ==
  /\ call = "ValidateHash"
  /\ verr = NoError
  /\ \E i \in ValuePositions(rawBody) :
       \E c \in TamperBytes \ { rawBody[i] } :
         rawBody' = ReplaceAt(rawBody, i, c)
  /\ origBody' = rawBody
  /\ verr' = ValidateHash(rawBody', integrationKey)
  /\ call' = "Tamper"
  /\ UNCHANGED << values, integrationKey, signature, prevSignature, lastKey, clientVars >>
  /\ UNCHANGED otherVars

NextVerifier ==
  \/ Validate
  \/ Tamper

SpecVerifier == InitVerifier /\ [][NextVerifier]_vars

----------------------------------------------------------------------------
(* The client: SendMobile and PollTransaction *)

StatusKey == B(<< "s", "t", "a", "t", "u", "s" >>)

ErrorKey == B(<< "e", "r", "r", "o", "r" >>)

AmountKey == B(<< "a", "m", "o", "u", "n", "t" >>)

ErrorStatus == B(<< "E", "r", "r", "o", "r" >>)

MethodEcocash == B(<< "e", "c", "o", "c", "a", "s", "h" >>)

Range(f) == { f[i] : i \in DOMAIN f }

RECURSIVE ParseLoop(_, _, _, _)
\* The loop of url.ParseQuery over the '&'-separated tokens: m is the map so
\* far, failed whether an error was met.
ParseLoop(toks, i, m, failed) ==
  IF i > Len(toks) THEN [ok |-> ~failed, values |-> m]
  ELSE LET t == toks[i]
           kv == SplitN2(t, Ch("="))
           k == QueryUnescape(kv[1])
           v == QueryUnescape(IF Len(kv) = 2 THEN kv[2] ELSE EmptyString)
       IN  IF Ch(";") \in Range(t) THEN ParseLoop(toks, i + 1, m, TRUE)
           ELSE IF t = EmptyString THEN ParseLoop(toks, i + 1, m, failed)
           ELSE IF ~k.ok \/ ~v.ok THEN ParseLoop(toks, i + 1, m, TRUE)
           ELSE ParseLoop(toks, i + 1,
                          [n \in DOMAIN m \cup { k.val } |->
                             IF n = k.val
                             THEN (IF n \in DOMAIN m THEN m[n] ELSE << >>) \o << v.val >>
                             ELSE m[n]],
                          failed)

\* url.ParseQuery: [ok, values].
ParseQuery(query) == ParseLoop(Split(query, Ch("&")), 1, << >>, FALSE)

ClientError(msg) == [kind |-> msg]

\* Faulty variant: the amount is checked before the reference.
validatePaymentAmountFirst(p) ==
  IF p.Amount <= 0 THEN ClientError("payment amount must be greater than zero")
  ELSE IF p.Reference = EmptyString THEN ClientError("payment reference is required")
  ELSE IF p.AuthEmail = EmptyString THEN ClientError("auth email is required")
  ELSE IF p.Phone = EmptyString
       THEN ClientError("phone number is required for mobile payments")
  ELSE NoError

validatePayment(p) ==
  IF p.Reference = EmptyString THEN ClientError("payment reference is required")
  ELSE IF p.Amount <= 0 THEN ClientError("payment amount must be greater than zero")
  ELSE IF p.AuthEmail = EmptyString THEN ClientError("auth email is required")
  ELSE IF p.Phone = EmptyString
       THEN ClientError("phone number is required for mobile payments")
  ELSE NoError

RECURSIVE Itoa(_)
\* The decimal digits of a natural number.
Itoa(n) ==
  IF n < 10 THEN << Ch("0") + n >>
  ELSE Itoa(n \div 10) \o << Ch("0") + (n % 10) >>

\* fmt.Sprintf("%.2f", amount) for an amount held in thousandths.
FormatAmount(a) ==
  LET abs == IF a < 0 THEN 0 - a ELSE a
      cents == (abs + 5) \div 10
  IN  (IF a < 0 /\ cents > 0 THEN << Ch("-") >> ELSE << >>)
      \o Itoa(cents \div 100) \o << Ch(".") >>
      \o << Ch("0") + ((cents \div 10) % 10), Ch("0") + (cents % 10) >>

buildRequestData(c, p) ==
  (B(<< "i", "d" >>) :> << c.IntegrationID >>)
  @@ (B(<< "r", "e", "f", "e", "r", "e", "n", "c", "e" >>) :> << p.Reference >>)
  @@ (AmountKey :> << FormatAmount(p.Amount) >>)
  @@ (B(<< "a", "u", "t", "h", "e", "m", "a", "i", "l" >>) :> << p.AuthEmail >>)
  @@ (B(<< "p", "h", "o", "n", "e" >>) :> << p.Phone >>)
  @@ (B(<< "m", "e", "t", "h", "o", "d" >>) :> << p.Method >>)
  @@ (B(<< "r", "e", "t", "u", "r", "n", "u", "r", "l" >>) :> << c.ReturnURL >>)
  @@ (B(<< "r", "e", "s", "u", "l", "t", "u", "r", "l" >>) :> << c.ResultURL >>)
  @@ (StatusKey :> << B(<< "M", "e", "s", "s", "a", "g", "e" >>) >>)

InitResponse(vals) ==
  [type |-> "InitResponse",
   Status |-> Get(vals, StatusKey),
   BrowserURL |-> Get(vals, B(<< "b", "r", "o", "w", "s", "e", "r", "u", "r", "l" >>)),
   PollURL |-> Get(vals, B(<< "p", "o", "l", "l", "u", "r", "l" >>)),
   Hash |-> Get(vals, HashName),
   Error |-> Get(vals, ErrorKey)]

\* What a parse function hands back: the response, the error, and whether
\* it ran ValidateHash on the body and with what result.
Returned(r, e, ran, v) == [resp |-> r, err |-> e, hashRun |-> ran, verr |-> v]

\* Faulty variant: the error of ValidateHash is dropped.
parseInitResponseIgnoreHash(body, c) ==
  LET pq == ParseQuery(body)
      status == Get(pq.values, StatusKey)
      v == ValidateHash(body, c.IntegrationKey)
  IN  IF ~pq.ok
      THEN Returned(NilResponse, ClientError("failed to parse response"), FALSE, NoError)
      ELSE IF status = ErrorStatus
      THEN Returned(InitResponse(pq.values),
                    [kind |-> "paynow error", text |-> Get(pq.values, ErrorKey)],
                    FALSE, NoError)
      ELSE Returned(InitResponse(pq.values), NoError, TRUE, v)

\* Faulty variant: the signature is validated whatever the status.
parseInitResponseAlwaysValidate(body, c) ==
  LET pq == ParseQuery(body)
      status == Get(pq.values, StatusKey)
      v == ValidateHash(body, c.IntegrationKey)
  IN  IF ~pq.ok
      THEN Returned(NilResponse, ClientError("failed to parse response"), FALSE, NoError)
      ELSE IF v # NoError THEN Returned(NilResponse, v, TRUE, v)
      ELSE IF status = ErrorStatus
      THEN Returned(InitResponse(pq.values),
                    [kind |-> "paynow error", text |-> Get(pq.values, ErrorKey)],
                    TRUE, v)
      ELSE Returned(InitResponse(pq.values), NoError, TRUE, v)

\* Faulty variant: a gateway error comes back without the response.
parseInitResponseNilOnError(body, c) ==
  LET pq == ParseQuery(body)
      status == Get(pq.values, StatusKey)
      v == ValidateHash(body, c.IntegrationKey)
  IN  IF ~pq.ok
      THEN Returned(NilResponse, ClientError("failed to parse response"), FALSE, NoError)
      ELSE IF status # ErrorStatus /\ v # NoError THEN Returned(NilResponse, v, TRUE, v)
      ELSE IF status = ErrorStatus
      THEN Returned(NilResponse,
                    [kind |-> "paynow error", text |-> Get(pq.values, ErrorKey)],
                    FALSE, NoError)
      ELSE Returned(InitResponse(pq.values), NoError, TRUE, v)

\* Faulty variant: a gateway error comes back with the response and no error.
parseInitResponseErrorIsNil(body, c) ==
  LET pq == ParseQuery(body)
      status == Get(pq.values, StatusKey)
      v == ValidateHash(body, c.IntegrationKey)
  IN  IF ~pq.ok
      THEN Returned(NilResponse, ClientError("failed to parse response"), FALSE, NoError)
      ELSE IF status # ErrorStatus /\ v # NoError THEN Returned(NilResponse, v, TRUE, v)
      ELSE IF status = ErrorStatus
      THEN Returned(InitResponse(pq.values), NoError, FALSE, NoError)
      ELSE Returned(InitResponse(pq.values), NoError, TRUE, v)

parseInitResponse(body, c) ==
  LET pq == ParseQuery(body)
      status == Get(pq.values, StatusKey)
      v == ValidateHash(body, c.IntegrationKey)
  IN  IF ~pq.ok
      THEN Returned(NilResponse, ClientError("failed to parse response"), FALSE, NoError)
      ELSE IF status # ErrorStatus /\ v # NoError THEN Returned(NilResponse, v, TRUE, v)
      ELSE IF status = ErrorStatus
      THEN Returned(InitResponse(pq.values),
                    [kind |-> "paynow error", text |-> Get(pq.values, ErrorKey)],
                    FALSE, NoError)
      ELSE Returned(InitResponse(pq.values), NoError, TRUE, v)

IsDigit(c) == c >= Ch("0") /\ c <= Ch("9")

\* fmt.Sscanf(s, "%f", &amount): [ok, val]; the number is kept as the text
\* that was read: an optional sign, digits, an optional fraction.
ScanFloat(s) ==
  LET start == IF s # << >> /\ s[1] \in { Ch("+"), Ch("-") } THEN 2 ELSE 1
      digitsEnd(from) ==
        IF \E j \in from..Len(s) : ~IsDigit(s[j])
        THEN (CHOOSE j \in from..Len(s) :
                ~IsDigit(s[j]) /\ \A k \in from..(j - 1) : IsDigit(s[k])) - 1
        ELSE Len(s)
      intEnd == digitsEnd(start)
      fracEnd == IF intEnd < Len(s) /\ s[intEnd + 1] = Ch(".")
                 THEN digitsEnd(intEnd + 2) ELSE intEnd
  IN  IF intEnd < start /\ fracEnd <= intEnd + 1
      THEN [ok |-> FALSE, val |-> << >>]
      ELSE [ok |-> TRUE, val |-> SubSeq(s, 1, fracEnd)]

StatusResponse(vals, amount) ==
  [type |-> "StatusResponse",
   Reference |-> Get(vals, B(<< "r", "e", "f", "e", "r", "e", "n", "c", "e" >>)),
   Amount |-> amount,
   PaynowReference |->
     Get(vals, B(<< "p", "a", "y", "n", "o", "w", "r", "e", "f", "e", "r", "e", "n", "c", "e" >>)),
   PollURL |-> Get(vals, B(<< "p", "o", "l", "l", "u", "r", "l" >>)),
   Status |-> Get(vals, StatusKey),
   Hash |-> Get(vals, HashName)]

\* Faulty variant: as in parseInitResponse, a body whose status is "Error" is
\* not validated.
parseStatusResponseSkipOnError(body, c) ==
  LET pq == ParseQuery(body)
      v == ValidateHash(body, c.IntegrationKey)
      amount == ScanFloat(Get(pq.values, AmountKey))
      skip == Get(pq.values, StatusKey) = ErrorStatus
  IN  IF ~pq.ok
      THEN Returned(NilResponse, ClientError("failed to parse status response"),
                    FALSE, NoError)
      ELSE IF ~skip /\ v # NoError THEN Returned(NilResponse, v, TRUE, v)
      ELSE IF ~amount.ok
      THEN Returned(NilResponse, ClientError("failed to parse amount"), ~skip,
                    IF skip THEN NoError ELSE v)
      ELSE Returned(StatusResponse(pq.values, amount.val), NoError, ~skip,
                    IF skip THEN NoError ELSE v)

parseStatusResponse(body, c) ==
  LET pq == ParseQuery(body)
      v == ValidateHash(body, c.IntegrationKey)
      amount == ScanFloat(Get(pq.values, AmountKey))
  IN  IF ~pq.ok
      THEN Returned(NilResponse, ClientError("failed to parse status response"),
                    FALSE, NoError)
      ELSE IF v # NoError THEN Returned(NilResponse, v, TRUE, v)
      ELSE IF ~amount.ok
      THEN Returned(NilResponse, ClientError("failed to parse amount"), TRUE, v)
      ELSE Returned(StatusResponse(pq.values, amount.val), NoError, TRUE, v)

Configs ==
  { [IntegrationID |-> B(<< "1", "2" >>), IntegrationKey |-> K,
     ResultURL |-> B(<< "r" >>), ReturnURL |-> B(<< "u" >>)] : K \in Keys }

\* Amounts are held in thousandths: -10.00, 0, 0.001 and 10.00.
Payments ==
  [Reference : { EmptyString, B(<< "R" >>) },
   Amount : { -10000, 0, 1, 10000 },
   AuthEmail : { EmptyString, B(<< "e" >>) },
   Phone : { EmptyString, B(<< "0", "7" >>) },
   Method : { EmptyString, MethodEcocash }]

\* The pairs a gateway body is made of.
BodyTokens(K) ==
  { StatusKey \o << Ch("=") >> \o B(<< "O", "k" >>),
    StatusKey \o << Ch("=") >> \o ErrorStatus,
    ErrorKey \o B(<< "=", "n", "o" >>),
    AmountKey \o B(<< "=", "1" >>),
    B(<< "e", "=", "%" >>),
    HashName \o B(<< "=", "0" >>) }
  \cup { HashName \o << Ch("=") >> \o HexDigest(m \o K) :
           m \in { B(<< "O", "k" >>), B(<< "O", "k", "1" >>),
                   B(<< "E", "r", "r", "o", "r", "1" >>) } }

Bodies(K) ==
  { Join(ts, Ch("&")) : ts \in UNION { [1..n -> BodyTokens(K)] : n \in 0..MaxPairs } }

InitClient ==
  /\ values = << >>
  /\ integrationKey = EmptyString
  /\ rawBody = EmptyString
  /\ call = "none"
  /\ signature = EmptyString
  /\ prevSignature = EmptyString
  /\ lastKey = EmptyString
  /\ verr = NoError
  /\ origBody = EmptyString
  /\ config \in Configs
  /\ payment = ZeroPayment
  /\ pc = "idle"
  /\ posts = 0
  /\ resp = NilResponse
  /\ err = NoError
  /\ hashRun = FALSE
  /\ OthersIdle

\* Faulty variant: the signature is computed before the last field, status,
\* is set.
SendMobileSignEarly(p) ==
  /\ pc = "idle"
  /\ call' = "SendMobile"
  /\ payment' = p
  /\ IF validatePayment(p) # NoError
     THEN /\ resp' = NilResponse
          /\ err' = validatePayment(p)
          /\ pc' = "done"
          /\ UNCHANGED << values, signature, posts >>
     ELSE LET q == IF p.Method = EmptyString THEN [p EXCEPT !.Method = MethodEcocash] ELSE p
              data == buildRequestData(config, q)
              early == [k \in DOMAIN data \ { StatusKey } |-> data[k]]
              requestHash == GenerateHash(early, config.IntegrationKey)
          IN  /\ signature' = requestHash
              /\ values' = Set(data, HashName, requestHash)
              /\ posts' = posts + 1
              /\ pc' = "posting"
              /\ UNCHANGED << resp, err >>
  /\ UNCHANGED << integrationKey, rawBody, prevSignature, lastKey, verr, origBody,
                  config, hashRun >>
  /\ UNCHANGED otherVars

\* SendMobile up to the call of httpClient.PostForm: validation, the default
\* method, the request data, its signature.
SendMobile(p) ==
  /\ pc = "idle"
  /\ call' = "SendMobile"
  /\ payment' = p
  /\ IF validatePayment(p) # NoError
     THEN /\ resp' = NilResponse
          /\ err' = validatePayment(p)
          /\ pc' = "done"
          /\ UNCHANGED << values, signature, posts >>
     ELSE LET q == IF p.Method = EmptyString THEN [p EXCEPT !.Method = MethodEcocash] ELSE p
              data == buildRequestData(config, q)
              requestHash == GenerateHash(data, config.IntegrationKey)
          IN  /\ signature' = requestHash
              /\ values' = Set(data, HashName, requestHash)
              /\ posts' = posts + 1
              /\ pc' = "posting"
              /\ UNCHANGED << resp, err >>
  /\ UNCHANGED << integrationKey, rawBody, prevSignature, lastKey, verr, origBody,
                  config, hashRun >>
  /\ UNCHANGED otherVars

\* PostForm returned an error.
PostFormFails ==
  /\ pc = "posting"
  /\ resp' = NilResponse
  /\ err' = ClientError("failed to send request")
  /\ pc' = "done"
  /\ UNCHANGED << hashVars, config, payment, posts, hashRun >>
  /\ UNCHANGED otherVars

\* io.ReadAll on the response body returned an error.
ReadResponseFails ==
  /\ pc = "posting"
  /\ resp' = NilResponse
  /\ err' = ClientError("failed to read response")
  /\ pc' = "done"
  /\ UNCHANGED << hashVars, config, payment, posts, hashRun >>
  /\ UNCHANGED otherVars

\* PostForm returned a body: SendMobile returns parseInitResponse of it.
PostFormReturns ==
  /\ pc = "posting"
  /\ \E body \in Bodies(config.IntegrationKey) :
       \E r \in { parseInitResponse(body, config) } :
           /\ rawBody' = body
           /\ resp' = r.resp
           /\ err' = r.err
           /\ hashRun' = r.hashRun
           /\ verr' = r.verr
  /\ pc' = "done"
  /\ UNCHANGED << values, integrationKey, call, signature, prevSignature, lastKey,
                  origBody, config, payment, posts >>
  /\ UNCHANGED otherVars

\* PollTransaction calls httpClient.Get.
PollTransaction ==
  /\ pc = "idle"
  /\ call' = "PollTransaction"
  /\ pc' = "polling"
  /\ UNCHANGED << values, integrationKey, rawBody, signature, prevSignature, lastKey,
                  verr, origBody, config, payment, posts, resp, err, hashRun >>
  /\ UNCHANGED otherVars

\* Get returned an error.
GetFails ==
  /\ pc = "polling"
  /\ resp' = NilResponse
  /\ err' = ClientError("failed to poll transaction")
  /\ pc' = "done"
  /\ UNCHANGED << hashVars, config, payment, posts, hashRun >>
  /\ UNCHANGED otherVars

\* io.ReadAll on the poll body returned an error.
ReadPollFails ==
  /\ pc = "polling"
  /\ resp' = NilResponse
  /\ err' = ClientError("failed to read poll response")
  /\ pc' = "done"
  /\ UNCHANGED << hashVars, config, payment, posts, hashRun >>
  /\ UNCHANGED otherVars

\* Get returned a body: PollTransaction returns parseStatusResponse of it.
GetReturns ==
  /\ pc = "polling"
  /\ \E body \in Bodies(config.IntegrationKey) :
       \E r \in { parseStatusResponse(body, config) } :
           /\ rawBody' = body
           /\ resp' = r.resp
           /\ err' = r.err
           /\ hashRun' = r.hashRun
           /\ verr' = r.verr
  /\ pc' = "done"
  /\ UNCHANGED << values, integrationKey, call, signature, prevSignature, lastKey,
                  origBody, config, payment, posts >>
  /\ UNCHANGED otherVars

NextClient ==
  \/ \E p \in Payments : SendMobile(p)
  \/ PostFormFails
  \/ ReadResponseFails
  \/ PostFormReturns
  \/ PollTransaction
  \/ GetFails
  \/ ReadPollFails
  \/ GetReturns

SpecClient == InitClient /\ [][NextClient]_vars

----------------------------------------------------------------------------
(* types: TransactionStatus and its helpers *)

StatusCreated == B(<< "C", "r", "e", "a", "t", "e", "d" >>)

StatusSent == B(<< "S", "e", "n", "t" >>)

StatusPending == B(<< "P", "e", "n", "d", "i", "n", "g" >>)

StatusPaid == B(<< "P", "a", "i", "d" >>)

StatusCancelled == B(<< "C", "a", "n", "c", "e", "l", "l", "e", "d" >>)

StatusFailed == B(<< "F", "a", "i", "l", "e", "d" >>)

StatusRefunded == B(<< "R", "e", "f", "u", "n", "d", "e", "d" >>)

StatusAwaitingDelivery ==
  B(<< "A", "w", "a", "i", "t", "i", "n", "g", " ",
       "D", "e", "l", "i", "v", "e", "r", "y" >>)

StatusDelivered == B(<< "D", "e", "l", "i", "v", "e", "r", "e", "d" >>)

IsPaid(s) == s = StatusPaid

IsPending(s) == s = StatusCreated \/ s = StatusSent \/ s = StatusPending

\* Faulty variant: a refunded transaction counts as failed.
IsFailedOrRefunded(s) == s = StatusCancelled \/ s = StatusFailed \/ s = StatusRefunded

IsFailed(s) == s = StatusCancelled \/ s = StatusFailed

\* The nine declared statuses.
DeclaredStatuses ==
  { StatusCreated, StatusSent, StatusPending, StatusPaid, StatusCancelled,
    StatusFailed, StatusRefunded, StatusAwaitingDelivery, StatusDelivered }

\* The strings the helpers are asked about: the declared statuses, the same
\* in lower and in upper case, the empty string, "Unknown", and a declared
\* status followed by a space.
StatusStrings ==
  DeclaredStatuses
  \cup { ToLower(s) : s \in DeclaredStatuses }
  \cup { ToUpper(s) : s \in DeclaredStatuses }
  \cup { EmptyString, B(<< "U", "n", "k", "n", "o", "w", "n" >>),
         StatusPaid \o << Ch(" ") >> }

\* No call of the hash package has been made.
HashIdle ==
  /\ values = << >>
  /\ integrationKey = EmptyString
  /\ rawBody = EmptyString
  /\ call = "none"
  /\ signature = EmptyString
  /\ prevSignature = EmptyString
  /\ lastKey = EmptyString
  /\ verr = NoError
  /\ origBody = EmptyString

InitStatus ==
  /\ HashIdle
  /\ ClientIdle
  /\ rangeOrder = << >>
  /\ prevValues = << >>
  /\ txStatus \in StatusStrings
  /\ answers = << >>
  /\ inputs = << >>
  /\ locals = << >>
  /\ builders = << >>

\* status.IsPaid()
AskIsPaid ==
  /\ "IsPaid" \notin DOMAIN answers
  /\ answers' = answers @@ ("IsPaid" :> IsPaid(txStatus))
  /\ UNCHANGED << hashVars, clientVars, moreHashVars, txStatus, goVars >>

\* status.IsPending()
AskIsPending ==
  /\ "IsPending" \notin DOMAIN answers
  /\ answers' = answers @@ ("IsPending" :> IsPending(txStatus))
  /\ UNCHANGED << hashVars, clientVars, moreHashVars, txStatus, goVars >>

\* status.IsFailed()
AskIsFailed ==
  /\ "IsFailed" \notin DOMAIN answers
  /\ answers' = answers @@ ("IsFailed" :> IsFailed(txStatus))
  /\ UNCHANGED << hashVars, clientVars, moreHashVars, txStatus, goVars >>

NextStatus ==
  \/ AskIsPaid
  \/ AskIsPending
  \/ AskIsFailed

SpecStatus == InitStatus /\ [][NextStatus]_vars

----------------------------------------------------------------------------
(* Concurrent invocations of GenerateHash and ValidateHash *)

MaxProcs == 2

\* The goroutines, each making one call.
Procs == 1..MaxProcs

\* Faulty variant: one strings.Builder, declared outside the functions, is
\* used by every invocation.
BuilderOfShared(p) == 1

\* The strings.Builder of invocation p: `var hashString strings.Builder` is a
\* local of the function, so every invocation has its own.
BuilderOf(p) == p

GenerateCall(vals, K) ==
  [fn |-> "GenerateHash", values |-> vals, rawBody |-> EmptyString, integrationKey |-> K]

ValidateCall(raw, K) ==
  [fn |-> "ValidateHash", values |-> << >>, rawBody |-> raw, integrationKey |-> K]

\* The calls the goroutines make: three field sets to sign and three payloads
\* to validate (one accepted, one with the pairs the other way round, one with
\* a value that does not decode).
ConcurrentCalls ==
  { GenerateCall((B(<< "a" >>) :> << B(<< "1" >>) >>) @@ (B(<< "b" >>) :> << B(<< "2" >>) >>),
                 B(<< "k", "e", "y" >>)),
    GenerateCall((B(<< "a" >>) :> << B(<< "2" >>) >>) @@ (HashName :> << B(<< "1" >>) >>),
                 B(<< "s" >>)),
    GenerateCall(<< >>, B(<< "s" >>)),
    ValidateCall(B(<< "x", "=", "5", "&", "y", "=", "6", "&", "h", "a", "s", "h", "=" >>)
                   \o HexDigest(B(<< "5", "6", "s" >>)), B(<< "s" >>)),
    ValidateCall(B(<< "y", "=", "6", "&", "x", "=", "5", "&", "h", "a", "s", "h", "=" >>)
                   \o HexDigest(B(<< "5", "6", "s" >>)), B(<< "s" >>)),
    ValidateCall(B(<< "x", "=", "5", "&", "p", "=", "%" >>), B(<< "k", "e", "y" >>)) }

\* The locals of an invocation that has not started.
NotStarted ==
  [pc |-> "start", keys |-> << >>, pairs |-> << >>, i |-> 1,
   receivedHash |-> EmptyString, result |-> << >>]

InitConcurrent ==
  /\ HashIdle
  /\ ClientIdle
  /\ rangeOrder = << >>
  /\ prevValues = << >>
  /\ txStatus = EmptyString
  /\ answers = << >>
  /\ inputs \in [Procs -> ConcurrentCalls]
  /\ locals = [p \in Procs |-> NotStarted]
  /\ builders = [b \in Procs |-> EmptyString]

\* hashString.WriteString(s) by invocation p.
WriteString(p, s) ==
  builders' = [builders EXCEPT ![BuilderOf(p)] = @ \o s]

\* GenerateHash, lines 16-24: the keys are collected and sorted, the builder
\* is declared empty.
GenerateCollect(p) ==
  /\ inputs[p].fn = "GenerateHash"
  /\ locals[p].pc = "start"
  /\ locals' = [locals EXCEPT ![p].keys = SortStrings(SignedKeys(inputs[p].values)),
                              ![p].i = 1,
                              ![p].pc = "loop"]
  /\ builders' = [builders EXCEPT ![BuilderOf(p)] = EmptyString]
  /\ UNCHANGED << hashVars, clientVars, moreHashVars, statusVars, inputs >>

\* GenerateHash, lines 25-27: one turn of the loop over the sorted keys.
GenerateWrite(p) ==
  /\ inputs[p].fn = "GenerateHash"
  /\ locals[p].pc = "loop"
  /\ locals[p].i <= Len(locals[p].keys)
  /\ WriteString(p, Get(inputs[p].values, locals[p].keys[locals[p].i]))
  /\ locals' = [locals EXCEPT ![p].i = @ + 1]
  /\ UNCHANGED << hashVars, clientVars, moreHashVars, statusVars, inputs >>

\* GenerateHash, line 28: the key is written after the loop.
GenerateWriteKey(p) ==
  /\ inputs[p].fn = "GenerateHash"
  /\ locals[p].pc = "loop"
  /\ locals[p].i > Len(locals[p].keys)
  /\ WriteString(p, inputs[p].integrationKey)
  /\ locals' = [locals EXCEPT ![p].pc = "sum"]
  /\ UNCHANGED << hashVars, clientVars, moreHashVars, statusVars, inputs >>

\* GenerateHash, lines 30-31: the digest of the builder is returned.
GenerateReturn(p) ==
  /\ inputs[p].fn = "GenerateHash"
  /\ locals[p].pc = "sum"
  /\ locals' = [locals EXCEPT ![p].result = HexDigest(builders[BuilderOf(p)]),
                              ![p].pc = "done"]
  /\ UNCHANGED << hashVars, clientVars, moreHashVars, statusVars, inputs, builders >>

\* ValidateHash, lines 37-39: the body is split, the builder and the
\* received hash are declared empty.
ValidateSplit(p) ==
  /\ inputs[p].fn = "ValidateHash"
  /\ locals[p].pc = "start"
  /\ locals' = [locals EXCEPT ![p].pairs = Split(inputs[p].rawBody, Ch("&")),
                              ![p].i = 1,
                              ![p].receivedHash = EmptyString,
                              ![p].pc = "loop"]
  /\ builders' = [builders EXCEPT ![BuilderOf(p)] = EmptyString]
  /\ UNCHANGED << hashVars, clientVars, moreHashVars, statusVars, inputs >>

\* ValidateHash, lines 41-59: one turn of the loop over the pairs.
ValidatePair(p) ==
  /\ inputs[p].fn = "ValidateHash"
  /\ locals[p].pc = "loop"
  /\ locals[p].i <= Len(locals[p].pairs)
  /\ LET kv == SplitN2(locals[p].pairs[locals[p].i], Ch("="))
         d == QueryUnescape(kv[2])
     IN  IF Len(kv) # 2
         THEN /\ locals' = [locals EXCEPT ![p].i = @ + 1]
              /\ UNCHANGED builders
         ELSE IF ToLower(kv[1]) = HashName
         THEN /\ locals' = [locals EXCEPT ![p].receivedHash = kv[2], ![p].i = @ + 1]
              /\ UNCHANGED builders
         ELSE IF ~d.ok
         THEN /\ locals' = [locals EXCEPT ![p].result = DecodeError(kv[1]),
                                          ![p].pc = "done"]
              /\ UNCHANGED builders
         ELSE /\ locals' = [locals EXCEPT ![p].i = @ + 1]
              /\ WriteString(p, d.val)
  /\ UNCHANGED << hashVars, clientVars, moreHashVars, statusVars, inputs >>

\* ValidateHash, line 61: the key is written after the loop.
ValidateWriteKey(p) ==
  /\ inputs[p].fn = "ValidateHash"
  /\ locals[p].pc = "loop"
  /\ locals[p].i > Len(locals[p].pairs)
  /\ WriteString(p, inputs[p].integrationKey)
  /\ locals' = [locals EXCEPT ![p].pc = "sum"]
  /\ UNCHANGED << hashVars, clientVars, moreHashVars, statusVars, inputs >>

\* ValidateHash, lines 62-68: the digest of the builder is compared with the
\* received hash.
ValidateCompare(p) ==
  /\ inputs[p].fn = "ValidateHash"
  /\ locals[p].pc = "sum"
  /\ LET expectedHash == HexDigest(builders[BuilderOf(p)])
     IN  locals' = [locals EXCEPT
                      ![p].result = IF locals[p].receivedHash # expectedHash
                                    THEN MismatchError(locals[p].receivedHash, expectedHash)
                                    ELSE NoError,
                      ![p].pc = "done"]
  /\ UNCHANGED << hashVars, clientVars, moreHashVars, statusVars, inputs, builders >>

NextConcurrent ==
  \E p \in Procs :
    \/ GenerateCollect(p)
    \/ GenerateWrite(p)
    \/ GenerateWriteKey(p)
    \/ GenerateReturn(p)
    \/ ValidateSplit(p)
    \/ ValidatePair(p)
    \/ ValidateWriteKey(p)
    \/ ValidateCompare(p)

SpecConcurrent == InitConcurrent /\ [][NextConcurrent]_vars

----------------------------------------------------------------------------
(* The same values under other names and with other boundaries *)

\* Field sets over three names whose values are pieces of "12".
RegroupSets ==
  LET names == { B(<< "a" >>), B(<< "b" >>), B(<< "z" >>) }
      vals == { B(<< "1" >>), B(<< "2" >>), B(<< "1", "2" >>), EmptyString }
  IN  UNION { [S -> { << v >> : v \in vals }] :
                S \in { T \in SUBSET names : Cardinality(T) <= MaxFields } }

\* Payloads whose values are pieces of "56", followed by the signature of
\* "56".
RegroupPayloads(K) ==
  LET toks == { B(<< "x", "=", "5" >>), B(<< "y", "=", "6" >>), B(<< "x", "=", "5", "6" >>),
                B(<< "y", "=" >>), B(<< "z", "=", "5", "6" >>) }
      hashPair == HashName \o << Ch("=") >> \o HexDigest(B(<< "5", "6" >>) \o K)
  IN  { Join(ts \o << hashPair >>, Ch("&")) :
          ts \in UNION { [1..n -> toks] : n \in 0..(MaxPairs - 1) } }

InitRegroup ==
  /\ integrationKey \in Keys
  /\ \/ values \in RegroupSets /\ rawBody = EmptyString
     \/ values = << >> /\ rawBody \in RegroupPayloads(integrationKey)
  /\ call = "none"
  /\ signature = EmptyString
  /\ prevSignature = EmptyString
  /\ lastKey = EmptyString
  /\ verr = NoError
  /\ origBody = EmptyString
  /\ ClientIdle
  /\ OthersIdle

\* GenerateHash on another field set, under the same secret.
SignOther ==
  /\ call = "GenerateHash"
  /\ values' \in RegroupSets \ { values }
  /\ prevValues' = values
  /\ prevSignature' = signature
  /\ signature' = GenerateHash(values', integrationKey)
  /\ call' = "SignOther"
  /\ UNCHANGED << integrationKey, rawBody, lastKey, verr, origBody, clientVars,
                  rangeOrder, statusVars, goVars >>

\* ValidateHash on another payload, under the secret that accepted the first.
ValidateOther ==
  /\ call = "ValidateHash"
  /\ verr = NoError
  /\ rawBody' \in RegroupPayloads(integrationKey) \ { rawBody }
  /\ origBody' = rawBody
  /\ verr' = ValidateHash(rawBody', integrationKey)
  /\ call' = "ValidateOther"
  /\ UNCHANGED << values, integrationKey, signature, prevSignature, lastKey, clientVars >>
  /\ UNCHANGED otherVars

NextRegroup ==
  \/ Sign
  \/ SignOther
  \/ Validate
  \/ ValidateOther

SpecRegroup == InitRegroup /\ [][NextRegroup]_vars

----------------------------------------------------------------------------
(* What the claims speak of, stated on the raw text *)

\* The name is "hash" in some letter case.
IsHashName(k) ==
  /\ Len(k) = 4
  /\ k[1] \in { Ch("h"), Ch("H") }
  /\ k[2] \in { Ch("a"), Ch("A") }
  /\ k[3] \in { Ch("s"), Ch("S") }
  /\ k[4] \in { Ch("h"), Ch("H") }

\* The name=value pairs of a payload in wire order, as << name, value >>;
\* the value is everything after the first '='.
PairsOf(raw) ==
  LET toks == Split(raw, Ch("&"))
  IN  SelectSeq([i \in 1..Len(toks) |-> SplitN2(toks[i], Ch("="))],
                LAMBDA kv : Len(kv) = 2)

NonHashPairs(raw) == SelectSeq(PairsOf(raw), LAMBDA kv : ~IsHashName(kv[1]))

HashPairs(raw) == SelectSeq(PairsOf(raw), LAMBDA kv : IsHashName(kv[1]))

AllDecode(raw) ==
  LET ps == NonHashPairs(raw)
  IN  \A i \in 1..Len(ps) : EscapeOK(ps[i][2])

\* The decoded non-hash values one after the other, in wire order.
WireMessage(raw) ==
  LET ps == NonHashPairs(raw)
  IN  Concat([i \in 1..Len(ps) |-> UnescapeFrom(ps[i][2], 1)])

\* The signature the payload carries: the value of its last hash pair.
ReceivedHash(raw) ==
  LET hs == HashPairs(raw)
  IN  IF hs = << >> THEN EmptyString ELSE hs[Len(hs)][2]

Validated == call \in { "ValidateHash", "Tamper" }

----------------------------------------------------------------------------
(* Claims *)

\* C1: for a payload whose non-hash values all percent-decode, ValidateHash
\* succeeds if and only if the raw value of the hash pair equals the
\* upper-case hex digest of the decoded non-hash values, concatenated in
\* wire order, followed by the secret.
C1_WireOrder ==
  (Validated /\ AllDecode(rawBody)) =>
    ((verr = NoError) <=>
       /\ HashPairs(rawBody) # << >>
       /\ ReceivedHash(rawBody) = HexDigest(WireMessage(rawBody) \o integrationKey))

\* C1 witness: y=6&x=5&hash=<digest of "65s"> is accepted under the secret s,
\* although x sorts before y.
C1_Witness ==
  /\ call = "ValidateHash"
  /\ integrationKey = B(<< "s" >>)
  /\ rawBody = B(<< "y", "=", "6", "&", "x", "=", "5", "&", "h", "a", "s", "h", "=",
                    "3", "6", "3", "5", "7", "3", "8", "0" >>)
  /\ verr = NoError

\* C2: GenerateHash is the upper-case hex digest of the values of the fields
\* not named "hash" (in any letter case), in ascending byte-wise order of
\* field name, followed by the secret.
C2_SortedValues ==
  call \in { "GenerateHash", "SetAndSign" } =>
    LET names == { k \in DOMAIN values : ~IsHashName(k) }
        n == Cardinality(names)
    IN  \E ks \in [1..n -> names] :
          /\ \A i \in 1..n, j \in 1..n : i < j => StringLess(ks[i], ks[j])
          /\ signature =
               HexDigest(Concat([i \in 1..n |-> values[ks[i]][1]]) \o integrationKey)

\* C2 witness: {a: 1, b: 2} under the key "key" signs the string "12key".
C2_Witness ==
  /\ call = "GenerateHash"
  /\ integrationKey = B(<< "k", "e", "y" >>)
  /\ values = (B(<< "a" >>) :> << B(<< "1" >>) >>) @@ (B(<< "b" >>) :> << B(<< "2" >>) >>)
  /\ signature = B(<< "3", "1", "3", "2", "6", "B", "6", "5", "7", "9", "8", "0" >>)

\* C3: a field set signed with GenerateHash, serialized as name=value pairs
\* joined by '&' followed by hash=<signature>, is accepted by ValidateHash
\* under the same secret.
C3_RoundTrip == call = "RoundTrip" => verr = NoError

\* C3 witness: a round trip of two fields whose values differ, one of them
\* made of reserved characters.
C3_Witness ==
  /\ call = "RoundTrip"
  /\ verr = NoError
  /\ values = (B(<< "B" >>) :> << B(<< "&", "=", " " >>) >>)
               @@ (B(<< "a" >>) :> << B(<< "1" >>) >>)

\* C4 as stated: every replacement of one character inside a non-hash value
\* of an accepted payload is rejected.
C4_AnyFlipRejected == call = "Tamper" => verr # NoError

\* C4 amended: the replacement is rejected whenever it leaves the received
\* signature as it was and changes the concatenation of the percent-decoded
\* non-hash values, or makes a value undecodable.
C4_DecodedChangeRejected ==
  (/\ call = "Tamper"
   /\ ReceivedHash(rawBody) = ReceivedHash(origBody)
   /\ (~AllDecode(rawBody) \/ WireMessage(rawBody) # WireMessage(origBody)))
  => verr # NoError

\* C4 witness: a replacement that changes the decoded bytes was rejected.
C4_Witness ==
  /\ call = "Tamper"
  /\ ReceivedHash(rawBody) = ReceivedHash(origBody)
  /\ AllDecode(rawBody)
  /\ WireMessage(rawBody) # WireMessage(origBody)
  /\ verr.kind = "invalid hash"

\* C5: setting a field named "hash", in any letter case and to any value,
\* leaves the signature of the field set unchanged.
C5_Exclusion ==
  (call = "SetAndSign" /\ IsHashName(lastKey)) => signature = prevSignature

\* C5 witness: HASH was set to a non-empty value on a field set that has
\* other fields, and the signature stayed.
C5_Witness ==
  /\ call = "SetAndSign"
  /\ lastKey = B(<< "H", "A", "S", "H" >>)
  /\ values[lastKey] = << B(<< "1" >>) >>
  /\ \E k \in DOMAIN values : ~IsHashName(k) /\ values[k][1] # EmptyString
  /\ signature = prevSignature

\* C6 as stated: every payload without a hash pair gets a mismatch failure.
C6_NoHashMismatch ==
  (call = "ValidateHash" /\ HashPairs(rawBody) = << >>) =>
    (verr.kind = "invalid hash" /\ verr.received = EmptyString)

\* C6 amended: a payload without a hash pair always fails: with a mismatch
\* failure, the received signature being empty and the expected one not,
\* when all its values percent-decode, and with a decode error otherwise.
C6_NoHashFails ==
  (call = "ValidateHash" /\ HashPairs(rawBody) = << >>) =>
    IF AllDecode(rawBody)
    THEN /\ verr.kind = "invalid hash"
         /\ verr.received = EmptyString
         /\ verr.expected # EmptyString
    ELSE verr.kind = "failed to decode value"

\* C6 witness: the bare status=Error got a mismatch failure with an empty
\* received signature.
C6_Witness ==
  /\ call = "ValidateHash"
  /\ rawBody = B(<< "s", "t", "a", "t", "u", "s", "=", "E", "r", "r", "o", "r" >>)
  /\ verr.kind = "invalid hash"
  /\ verr.received = EmptyString

----------------------------------------------------------------------------
(* What the client claims speak of, stated on the raw body *)

\* ValidateHash accepts raw under K, stated on the text (see C1).
Accepts(raw, K) ==
  /\ AllDecode(raw)
  /\ HashPairs(raw) # << >>
  /\ ReceivedHash(raw) = HexDigest(WireMessage(raw) \o K)

\* The body is a well-formed query: no ';' and every '%' starts an escape
\* of two hex digits.
QueryParses(raw) ==
  \A i \in 1..Len(raw) :
    /\ raw[i] # Ch(";")
    /\ raw[i] = Ch("%") => (i + 2 <= Len(raw) /\ IsHex(raw[i + 1]) /\ IsHex(raw[i + 2]))

\* The decoded value of the first field of the body whose decoded name is
\* name, "" when there is none; a token without '=' is a name with the
\* empty value, and fields that do not decode are left out.
FieldOf(raw, name) ==
  LET toks == SelectSeq(Split(raw, Ch("&")),
                        LAMBDA t : t # << >> /\ EscapeOK(t) /\ Ch(";") \notin Range(t))
      nameOf(t) == UnescapeFrom(SplitN2(t, Ch("="))[1], 1)
      mine == SelectSeq(toks, LAMBDA t : nameOf(t) = name)
  IN  IF mine = << >> THEN EmptyString
      ELSE LET kv == SplitN2(mine[1], Ch("="))
           IN  IF Len(kv) = 2 THEN UnescapeFrom(kv[2], 1) ELSE EmptyString

\* The body reports an error condition: its status is "Error".
ReportsError(raw) == FieldOf(raw, StatusKey) = ErrorStatus

ClientReturned(op) == call = op /\ pc = "done"

\* The payment fails one of the checks of SendMobile.
InvalidPayment(p) ==
  \/ p.Reference = EmptyString
  \/ p.Amount <= 0
  \/ p.AuthEmail = EmptyString
  \/ p.Phone = EmptyString

----------------------------------------------------------------------------
(* Claims about the client *)

\* C7 as stated: a typed result is returned only for a body on which
\* ValidateHash was run and succeeded.
C7_OnlyIfVerified ==
  (pc = "done" /\ resp # NilResponse) => (hashRun /\ verr = NoError)

\* C7 amended: a typed result is returned only for a body on which
\* ValidateHash was run and succeeded, or, by SendMobile alone, for a body
\* whose status is "Error", on which ValidateHash is not run and which comes
\* back together with a "paynow error".
C7_VerifiedOrGatewayError ==
  (pc = "done" /\ resp # NilResponse) =>
    \/ /\ hashRun
       /\ verr = NoError
       /\ Accepts(rawBody, config.IntegrationKey)
    \/ /\ call = "SendMobile"
       /\ ~hashRun
       /\ ReportsError(rawBody)
       /\ resp.Status = ErrorStatus
       /\ err.kind = "paynow error"

\* C7 witness: SendMobile returned an InitResponse and no error for a body
\* that ValidateHash accepted.
C7_Witness ==
  /\ ClientReturned("SendMobile")
  /\ resp.type = "InitResponse"
  /\ err = NoError
  /\ hashRun
  /\ Accepts(rawBody, config.IntegrationKey)

\* C8 as stated: for an initiate or poll body that reports status=Error the
\* signature is not validated, so no hash mismatch comes back.
C8_ErrorSkipsValidation ==
  (pc = "done" /\ ReportsError(rawBody)) => (~hashRun /\ err.kind # "invalid hash")

\* C8 amended: SendMobile skips the validation for an initiate body that
\* reports status=Error, so no hash mismatch comes back for it;
\* PollTransaction validates every poll body it can parse, status=Error
\* included.
C8_InitErrorSkipsValidation ==
  /\ (ClientReturned("SendMobile") /\ ReportsError(rawBody)) =>
       (~hashRun /\ err.kind \notin { "invalid hash", "failed to decode value" })
  /\ (ClientReturned("PollTransaction") /\ ReportsError(rawBody) /\ QueryParses(rawBody)) =>
       (hashRun /\ (resp # NilResponse => Accepts(rawBody, config.IntegrationKey)))

\* C8 witness: SendMobile got the bare status=Error, without a hash, and did
\* not validate it.
C8_Witness ==
  /\ ClientReturned("SendMobile")
  /\ rawBody = StatusKey \o << Ch("=") >> \o ErrorStatus
  /\ ~hashRun
  /\ err.kind = "paynow error"

\* C9: a payment with an empty Reference, an Amount <= 0, an empty AuthEmail
\* or an empty Phone makes SendMobile return nil and the error of the first
\* failing check, in that order, without a call of PostForm.
C9_ValidationErrors ==
  (call = "SendMobile" /\ InvalidPayment(payment)) =>
    /\ pc = "done"
    /\ resp = NilResponse
    /\ posts = 0
    /\ values = << >>
    /\ payment.Reference = EmptyString =>
         err = ClientError("payment reference is required")
    /\ (payment.Reference # EmptyString /\ payment.Amount <= 0) =>
         err = ClientError("payment amount must be greater than zero")
    /\ (payment.Reference # EmptyString /\ payment.Amount > 0
        /\ payment.AuthEmail = EmptyString) =>
         err = ClientError("auth email is required")
    /\ (payment.Reference # EmptyString /\ payment.Amount > 0
        /\ payment.AuthEmail # EmptyString /\ payment.Phone = EmptyString) =>
         err = ClientError("phone number is required for mobile payments")

\* C9 witness: a payment that fails every check got the reference error and
\* PostForm was not called.
C9_Witness ==
  /\ ClientReturned("SendMobile")
  /\ payment.Reference = EmptyString
  /\ payment.Amount <= 0
  /\ payment.AuthEmail = EmptyString
  /\ payment.Phone = EmptyString
  /\ err = ClientError("payment reference is required")
  /\ posts = 0

\* C10 as stated: for every initiate body whose status is "Error" SendMobile
\* returns an InitResponse with Status "Error" and the error text, and a
\* "paynow error".
C10_GatewayError ==
  (ClientReturned("SendMobile") /\ ReportsError(rawBody)) =>
    /\ resp # NilResponse
    /\ resp.Status = ErrorStatus
    /\ resp.Error = FieldOf(rawBody, ErrorKey)
    /\ err = [kind |-> "paynow error", text |-> FieldOf(rawBody, ErrorKey)]

\* C10 amended: the same for every initiate body that is a well-formed query
\* (no ';', every '%' starting a valid escape), with or without a hash.
C10_ParsedGatewayError ==
  (ClientReturned("SendMobile") /\ ReportsError(rawBody) /\ QueryParses(rawBody)) =>
    /\ resp # NilResponse
    /\ resp.Status = ErrorStatus
    /\ resp.Error = FieldOf(rawBody, ErrorKey)
    /\ err = [kind |-> "paynow error", text |-> FieldOf(rawBody, ErrorKey)]

\* C10 witness: status=Error&error=no, without a hash, came back as an
\* InitResponse together with a paynow error.
C10_Witness ==
  /\ ClientReturned("SendMobile")
  /\ rawBody = StatusKey \o << Ch("=") >> \o ErrorStatus \o << Ch("&") >>
               \o ErrorKey \o B(<< "=", "n", "o" >>)
  /\ resp.type = "InitResponse"
  /\ resp.Status = ErrorStatus
  /\ resp.Error = B(<< "n", "o" >>)
  /\ err.kind = "paynow error"

\* The transport handed a body to the parse function: the call did not end
\* with an error of Get, PostForm or io.ReadAll.
BodyReceived ==
  /\ pc = "done"
  /\ err.kind \notin { "failed to send request", "failed to read response",
                       "failed to poll transaction", "failed to read poll response" }

\* C11 as stated: PollTransaction returns a StatusResponse only for a body
\* that ValidateHash accepted, and for every poll body with a wrong or
\* missing hash it returns nil and an "invalid hash" error.
C11_PollInvalidHash ==
  (ClientReturned("PollTransaction") /\ BodyReceived) =>
    /\ resp # NilResponse =>
         (hashRun /\ verr = NoError /\ Accepts(rawBody, config.IntegrationKey))
    /\ ~Accepts(rawBody, config.IntegrationKey) =>
         (resp = NilResponse /\ err.kind = "invalid hash")

\* C11 amended: PollTransaction returns a StatusResponse only for a body
\* that ValidateHash accepted; for every poll body that is a well-formed
\* query and has a wrong or missing hash, whatever its status, it returns
\* nil and an "invalid hash" error; a body that is not a well-formed query
\* comes back as nil and "failed to parse status response" before any
\* validation.
C11_PollVerified ==
  (ClientReturned("PollTransaction") /\ BodyReceived) =>
    /\ resp # NilResponse =>
         (hashRun /\ verr = NoError /\ Accepts(rawBody, config.IntegrationKey))
    /\ (QueryParses(rawBody) /\ ~Accepts(rawBody, config.IntegrationKey)) =>
         (resp = NilResponse /\ hashRun /\ err.kind = "invalid hash")
    /\ ~QueryParses(rawBody) =>
         (resp = NilResponse /\ ~hashRun
          /\ err = ClientError("failed to parse status response"))

\* C11 witness: the poll body status=Error&amount=1 with the digest of another
\* message came back as nil and an invalid hash error.
C11_Witness ==
  /\ ClientReturned("PollTransaction")
  /\ rawBody = StatusKey \o << Ch("=") >> \o ErrorStatus \o << Ch("&") >>
               \o AmountKey \o B(<< "=", "1", "&" >>)
               \o HashName \o << Ch("=") >> \o HexDigest(B(<< "O", "k", "1" >>)
                                                           \o config.IntegrationKey)
  /\ resp = NilResponse
  /\ err.kind = "invalid hash"

----------------------------------------------------------------------------
(* Claims about the status helpers *)

\* The helper was asked and said yes.
Says(helper) == helper \in DOMAIN answers /\ answers[helper]

\* C12: IsPaid holds exactly for "Paid", IsPending exactly for "Created",
\* "Sent" and "Pending", IsFailed exactly for "Cancelled" and "Failed"; for
\* "Refunded", "Awaiting Delivery", "Delivered" and every unknown string all
\* three are false, and no status satisfies more than one of the three.
C12_StatusHelpers ==
  LET paid == { B(<< "P", "a", "i", "d" >>) }
      pending == { B(<< "C", "r", "e", "a", "t", "e", "d" >>), B(<< "S", "e", "n", "t" >>),
                   B(<< "P", "e", "n", "d", "i", "n", "g" >>) }
      failed == { B(<< "C", "a", "n", "c", "e", "l", "l", "e", "d" >>),
                  B(<< "F", "a", "i", "l", "e", "d" >>) }
  IN  /\ "IsPaid" \in DOMAIN answers => (answers["IsPaid"] <=> txStatus \in paid)
      /\ "IsPending" \in DOMAIN answers => (answers["IsPending"] <=> txStatus \in pending)
      /\ "IsFailed" \in DOMAIN answers => (answers["IsFailed"] <=> txStatus \in failed)
      /\ txStatus \notin (paid \cup pending \cup failed) =>
           \A h \in DOMAIN answers : ~answers[h]
      /\ Cardinality({ h \in DOMAIN answers : answers[h] }) <= 1

\* C12 witness: all three helpers were asked about "Refunded" and all three
\* said no.
C12_Witness ==
  /\ txStatus = B(<< "R", "e", "f", "u", "n", "d", "e", "d" >>)
  /\ DOMAIN answers = { "IsPaid", "IsPending", "IsFailed" }
  /\ ~Says("IsPaid") /\ ~Says("IsPending") /\ ~Says("IsFailed")

----------------------------------------------------------------------------
(* Further claims about the hash package *)

\* C13: two calls of GenerateHash on the same field set and secret return
\* identical signatures, whatever the order in which each call's range over
\* the map meets the keys and whatever was called before.
C13_Determinism == call = "SignAgain" => signature = prevSignature

\* C13 witness: the second call met the keys b, a in that order, the two
\* values differ, and the signature is the one of the first call.
C13_Witness ==
  /\ call = "SignAgain"
  /\ rangeOrder = << B(<< "b" >>), B(<< "a" >>) >>
  /\ values[B(<< "a" >>)] # values[B(<< "b" >>)]
  /\ signature = prevSignature

\* What the call returns when it runs alone.
Alone(c) ==
  IF c.fn = "GenerateHash" THEN GenerateHash(c.values, c.integrationKey)
  ELSE ValidateHash(c.rawBody, c.integrationKey)

\* Every invocation that has returned, returned what it returns alone.
ReturnsAsAlone ==
  \A p \in Procs : locals[p].pc = "done" => locals[p].result = Alone(inputs[p])

\* C14: under every interleaving of concurrent invocations of GenerateHash
\* and ValidateHash, on distinct or identical inputs, each invocation returns
\* what it returns when run alone, and no step changes the field set or the
\* payload of any invocation.
C14_NoSharedState == []ReturnsAsAlone /\ [][inputs' = inputs]_vars

\* C14 witness: a ValidateHash ran from start to end, and accepted its
\* payload, while a GenerateHash on two fields had written its first value
\* and not yet its second.
C14_Witness ==
  /\ inputs[1].fn = "GenerateHash"
  /\ Len(locals[1].keys) = 2
  /\ locals[1].pc = "loop"
  /\ locals[1].i = 2
  /\ inputs[2].fn = "ValidateHash"
  /\ locals[2].pc = "done"
  /\ locals[2].result = NoError

\* values.Set replaced the value of a field the set already had by another.
ValueChanged ==
  /\ call = "SetAndSign"
  /\ lastKey \in DOMAIN prevValues
  /\ values[lastKey] # prevValues[lastKey]

\* C15 as stated: changing the value of any single field of the field set
\* to a different value changes the signature.
C15_AnyFieldChange == ValueChanged => signature # prevSignature

\* C15 amended: changing the value of any single field whose name is not
\* "hash" (in any letter case) to a different value changes the signature;
\* changing the value of a field named "hash" never does.
C15_SignedFieldChange ==
  ValueChanged => (signature # prevSignature <=> ~IsHashName(lastKey))

\* C15 witness: in {a: 1, b: 2} the value of a was changed to 2 and the
\* signature changed.
C15_Witness ==
  /\ ValueChanged
  /\ prevValues = (B(<< "a" >>) :> << B(<< "1" >>) >>) @@ (B(<< "b" >>) :> << B(<< "2" >>) >>)
  /\ values = (B(<< "a" >>) :> << B(<< "2" >>) >>) @@ (B(<< "b" >>) :> << B(<< "2" >>) >>)
  /\ signature # prevSignature

\* How many bytes of s are c.
CountByte(s, c) == Cardinality({ i \in 1..Len(s) : s[i] = c })

\* The payload without its '&'-separated tokens that do not satisfy keep.
Keeping(raw, keep(_)) == Join(SelectSeq(Split(raw, Ch("&")), keep), Ch("&"))

\* C16 as stated: every token that does not contain exactly one '=' is
\* skipped: the outcome is the outcome for the payload without these tokens.
C16_NotExactlyOneSkipped ==
  Validated =>
    verr = ValidateHash(Keeping(rawBody, LAMBDA t : CountByte(t, Ch("=")) = 1),
                        integrationKey)

\* C16 amended: every token that contains no '=' is skipped: the outcome is
\* the outcome for the payload without these tokens.  A token with two or
\* more '=' is not skipped: it is a pair whose value is everything after
\* its first '=', so the expected signature is the digest of the decoded
\* values, each taken from the first '=' of its token on, and the secret.
C16_NoEqualsSkipped ==
  Validated =>
    /\ verr = ValidateHash(Keeping(rawBody, LAMBDA t : CountByte(t, Ch("=")) >= 1),
                           integrationKey)
    /\ verr.kind = "invalid hash" =>
         /\ verr.expected = HexDigest(WireMessage(rawBody) \o integrationKey)
         /\ verr.received = ReceivedHash(rawBody)

\* C16 witness: 5&m=+%4A&hash=<digest of " J" and the secret> is accepted: the
\* token 5 adds nothing to the hash input and causes no error.
C16_Witness ==
  /\ call = "ValidateHash"
  /\ rawBody = B(<< "5", "&", "m", "=", "+", "%", "4", "A", "&" >>) \o HashName
               \o << Ch("=") >> \o HexDigest(B(<< " ", "J" >>) \o integrationKey)
  /\ verr = NoError

\* The name of the first pair in wire order, the hash pairs left out, whose
\* value does not percent-decode.
FirstUndecodable(raw) ==
  SelectSeq(NonHashPairs(raw), LAMBDA kv : ~EscapeOK(kv[2]))[1][1]

\* C17: when the value of some non-hash pair does not percent-decode,
\* ValidateHash fails with a decode error naming the first such pair in wire
\* order, whether or not a hash is present or would match; the value of a
\* hash pair is never decoded, so when all other values decode there is no
\* decode error.
C17_DecodeError ==
  Validated =>
    IF AllDecode(rawBody) THEN verr.kind # "failed to decode value"
    ELSE verr = DecodeError(FirstUndecodable(rawBody))

\* C17 witness: hash=%&r=%Z&p=% fails with a decode error naming r, not hash
\* and not p.
C17_Witness ==
  /\ call = "ValidateHash"
  /\ rawBody = B(<< "h", "a", "s", "h", "=", "%", "&", "r", "=", "%", "Z", "&", "p", "=", "%" >>)
  /\ verr = DecodeError(B(<< "r" >>))

----------------------------------------------------------------------------
(* Further claims about the client *)

\* The names of the fields SendMobile sends besides the signature.
RequestFields ==
  { B(<< "i", "d" >>), B(<< "r", "e", "f", "e", "r", "e", "n", "c", "e" >>),
    B(<< "a", "m", "o", "u", "n", "t" >>), B(<< "a", "u", "t", "h", "e", "m", "a", "i", "l" >>),
    B(<< "p", "h", "o", "n", "e" >>), B(<< "m", "e", "t", "h", "o", "d" >>),
    B(<< "r", "e", "t", "u", "r", "n", "u", "r", "l" >>),
    B(<< "r", "e", "s", "u", "l", "t", "u", "r", "l" >>), B(<< "s", "t", "a", "t", "u", "s" >>) }

\* The values of the fields of the form that are not named "hash", written
\* one after the other in ascending byte-wise order of their names.
OtherValues(form) ==
  LET names == { k \in DOMAIN form : ~IsHashName(k) }
      nth(i) == CHOOSE k \in names :
                  Cardinality({ o \in names : StringLess(o, k) }) = i - 1
  IN  Concat([i \in 1..Cardinality(names) |-> form[nth(i)][1]])

\* C18: in every SendMobile call that reaches the transport, the form handed
\* to PostForm holds, when PostForm is called, the nine request fields and a
\* field "hash" whose value is the signature of all the other fields of that
\* same form under the configured integration key, which is also what
\* GenerateHash returned.
C18_SignedForm ==
  (call = "SendMobile" /\ pc = "posting") =>
    /\ posts = 1
    /\ DOMAIN values = RequestFields \cup { B(<< "h", "a", "s", "h" >>) }
    /\ \A k \in DOMAIN values : Len(values[k]) = 1
    /\ values[B(<< "h", "a", "s", "h" >>)][1] =
         HexDigest(OtherValues(values) \o config.IntegrationKey)
    /\ signature = values[B(<< "h", "a", "s", "h" >>)][1]

\* C18 witness: a payment of 10.00 without a method is at the transport; the
\* method was defaulted to ecocash and the hash is the digest of
\* amount, authemail, id, method, phone, reference, resulturl, returnurl and
\* status, in that order, and the key.
C18_Witness ==
  /\ call = "SendMobile"
  /\ pc = "posting"
  /\ payment.Method = EmptyString
  /\ Get(values, HashName) =
       HexDigest(B(<< "1", "0", ".", "0", "0", "e", "1", "2",
                      "e", "c", "o", "c", "a", "s", "h", "0", "7", "R", "r", "u",
                      "M", "e", "s", "s", "a", "g", "e" >>) \o config.IntegrationKey)

\* C19: SendMobile returns a nil error only if the status of the response
\* body is not "Error" and ValidateHash accepted that very body under the
\* configured integration key; a body whose status is "Error", for which
\* the validation is skipped, always comes back with an error.
C19_NilErrorOnlyIfVerified ==
  ClientReturned("SendMobile") =>
    /\ err = NoError =>
         /\ posts = 1
         /\ ~ReportsError(rawBody)
         /\ hashRun
         /\ verr = NoError
         /\ Accepts(rawBody, config.IntegrationKey)
         /\ resp.type = "InitResponse"
    /\ (BodyReceived /\ posts = 1 /\ ReportsError(rawBody)) =>
         (~hashRun /\ err # NoError)

\* C19 witness: status=Ok&hash=<digest of "Ok" and the key> came back as an
\* InitResponse with the status Ok and a nil error.
C19_Witness ==
  /\ ClientReturned("SendMobile")
  /\ rawBody = StatusKey \o B(<< "=", "O", "k", "&" >>) \o HashName \o << Ch("=") >>
               \o HexDigest(B(<< "O", "k" >>) \o config.IntegrationKey)
  /\ resp.type = "InitResponse"
  /\ resp.Status = B(<< "O", "k" >>)
  /\ err = NoError

----------------------------------------------------------------------------
(* Claims about what the signature does not cover *)

\* C20: field names and field boundaries are not authenticated.  Two field
\* sets whose values, in ascending order of their names, concatenate to the
\* same string get the same signature under the same secret; and when
\* ValidateHash accepts a payload it accepts every payload with the same
\* signature whose decoded values, in wire order, concatenate to the same
\* string.
C20_NamesNotSigned ==
  /\ (call = "SignOther" /\ OtherValues(values) = OtherValues(prevValues)) =>
       signature = prevSignature
  /\ (/\ call = "ValidateOther"
      /\ AllDecode(rawBody)
      /\ WireMessage(rawBody) = WireMessage(origBody)
      /\ ReceivedHash(rawBody) = ReceivedHash(origBody)) =>
       verr = NoError

\* C20 witness: {a: 12} was signed after {a: 1, b: 2} and got its signature.
C20_Witness ==
  /\ call = "SignOther"
  /\ prevValues = (B(<< "a" >>) :> << B(<< "1" >>) >>) @@ (B(<< "b" >>) :> << B(<< "2" >>) >>)
  /\ values = (B(<< "a" >>) :> << B(<< "1", "2" >>) >>)
  /\ signature = prevSignature
  /\ signature = HexDigest(B(<< "1", "2" >>) \o integrationKey)

\* z=56&hash=H was accepted after x=5&y=6&hash=H, H the signature of "56".
C20_RenamedAccepted ==
  /\ call = "ValidateOther"
  /\ origBody = B(<< "x", "=", "5", "&", "y", "=", "6", "&" >>) \o HashName \o << Ch("=") >>
                \o HexDigest(B(<< "5", "6" >>) \o integrationKey)
  /\ rawBody = B(<< "z", "=", "5", "6", "&" >>) \o HashName \o << Ch("=") >>
               \o HexDigest(B(<< "5", "6" >>) \o integrationKey)
  /\ verr = NoError

\* x=56&y=&hash=H was accepted after x=5&y=6&hash=H.
C20_RegroupedAccepted ==
  /\ call = "ValidateOther"
  /\ origBody = B(<< "x", "=", "5", "&", "y", "=", "6", "&" >>) \o HashName \o << Ch("=") >>
                \o HexDigest(B(<< "5", "6" >>) \o integrationKey)
  /\ rawBody = B(<< "x", "=", "5", "6", "&", "y", "=", "&" >>) \o HashName \o << Ch("=") >>
               \o HexDigest(B(<< "5", "6" >>) \o integrationKey)
  /\ verr = NoError

----------------------------------------------------------------------------
(* Claims about payloads with several hash pairs *)

\* The token is a pair whose name is "hash" in some letter case.
IsHashToken(t) ==
  LET kv == SplitN2(t, Ch("="))
  IN  Len(kv) = 2 /\ IsHashName(kv[1])

\* The tokens of the payload that are not hash pairs, in wire order.
OtherTokens(raw) == SelectSeq(Split(raw, Ch("&")), LAMBDA t : ~IsHashToken(t))

\* The last hash pair of the payload as a sequence of one token, or of none
\* when the payload has no hash pair.
LastHashToken(raw) ==
  LET hs == SelectSeq(Split(raw, Ch("&")), IsHashToken)
  IN  IF hs = << >> THEN << >> ELSE << hs[Len(hs)] >>

\* The payload made of the tokens others with the tokens last put in after
\* the first pos of them.
WithHashAt(others, last, pos) ==
  Join(SubSeq(others, 1, pos) \o last \o SubSeq(others, pos + 1, Len(others)), Ch("&"))

\* C21: when a payload has several pairs named "hash" (in any letter case),
\* ValidateHash compares the expected signature with the value of the last
\* of them only; no hash pair is part of the hash input; and where the hash
\* pair stands among the other pairs does not matter: the outcome is the
\* outcome for the payload that has its other tokens in their order and only
\* its last hash pair, at whatever position among them.
C21_LastHashAnywhere ==
  Validated =>
    /\ verr.kind = "invalid hash" =>
         /\ verr.received = ReceivedHash(rawBody)
         /\ verr.expected = HexDigest(WireMessage(rawBody) \o integrationKey)
    /\ verr = NoError =>
         ReceivedHash(rawBody) = HexDigest(WireMessage(rawBody) \o integrationKey)
    /\ \A others \in { OtherTokens(rawBody) }, last \in { LastHashToken(rawBody) } :
         \A pos \in 0..Len(others) :
           verr = ValidateHash(WithHashAt(others, last, pos), integrationKey)

\* C21 witness: hash=<digest of "56" and the secret>&m=+%4A&hash=<digest of
\* " J" and the secret> is accepted: the first hash pair, which does not
\* match, is neither compared nor hashed.
C21_Witness ==
  /\ call = "ValidateHash"
  /\ rawBody = HashName \o << Ch("=") >> \o HexDigest(B(<< "5", "6" >>) \o integrationKey)
               \o B(<< "&", "m", "=", "+", "%", "4", "A", "&" >>)
               \o HashName \o << Ch("=") >> \o HexDigest(B(<< " ", "J" >>) \o integrationKey)
  /\ verr = NoError

=============================================================================
